---- MODULE Spec2Model ----
(***************************************************************************)
(* Task lifecycle layer of the reddit_agent A2A server: the in-memory task *)
(* table of InMemoryTaskManager, RedditAgentTaskManager.on_send_task,      *)
(* InMemoryTaskManager.on_get_task and the POST / handler of A2AServer.    *)
(*                                                                         *)
(* Every handler is an asyncio coroutine on one event loop.  A coroutine   *)
(* gives the loop back only at an await that really suspends.  No locked   *)
(* section of the task manager contains an await, so asyncio.Lock.acquire  *)
(* always finds the lock free and returns without suspending, and          *)
(* agent.invoke is an ordinary (blocking) call: a started on_send_task or  *)
(* on_get_task runs to its end before another coroutine is resumed.  The   *)
(* variable `running` is the coroutine that owns the loop.                 *)
(*                                                                         *)
(* Optional values (None in the source) are sequences of length <= 1.      *)
(***************************************************************************)
EXTENDS Integers, Sequences, FiniteSets, TLC

\* ------------------------------------------------------------------ bounds
NumReq == 3
MaxHistoryLength == 2

Reqs == 1..NumReq
\* task ids in the order callers first use them
IdOrder == <<"t1", "t2">>
\* incoming messages as <<role, parts>>: role is "user" or "agent", and
\* parts: List[Part] may be empty, one part or several
InMessages == {<<"user", <<"q1">>>>, <<"agent", <<"q2", "q1">>>>, <<"user", <<>>>>}
NoResponse == "No response from agent"
ReplyTexts == {"a1", NoResponse}
\* historyLength: int | None
HistoryLengths == {<<>>} \cup {<<h>> : h \in (0 - 1)..MaxHistoryLength}

\* ------------------------------------------------------- models/task.py
\* TaskState: the lifecycle values
SUBMITTED == "submitted"
WORKING == "working"
INPUT_REQUIRED == "input-required"
COMPLETED == "completed"
CANCELED == "canceled"
FAILED == "failed"
UNKNOWN == "unknown"
TaskState == {SUBMITTED, WORKING, INPUT_REQUIRED, COMPLETED, CANCELED, FAILED, UNKNOWN}

\* Message(role, parts); oid is the identity of the Python object: the
\* request that built it and whether it is its incoming message or its reply.
Message(role, parts, oid) == [role |-> role, parts |-> parts, oid |-> oid]

\* TaskStatus(state): timestamp is datetime.now() at construction, here the
\* request that constructed the value and the place it did so.
TaskStatus(state, r, at) == [state |-> state, timestamp |-> <<r, at>>]

\* Task(id, status, history)
Task(id, status, history) == [id |-> id, status |-> status, history |-> history]

VARIABLES
    tasks,          \* InMemoryTaskManager.tasks: Dict[str, Task]
    lock,           \* InMemoryTaskManager.lock: the request holding it, 0 if free
    running,        \* the coroutine that owns the event loop, 0 if none
    pc,             \* each request's position
    req,            \* each request: the call's argument or the POST body
    invoked,        \* the query agent.invoke was called with, if it was called
    response_text,  \* on_send_task's local: the resolver's output
    resp,           \* what the task manager call gave back, or the exception
    http,           \* the HTTP response of POST /
    store_writes,   \* history: per id, the upserts and reply appends so far
    read_at         \* history: store_writes of its id when on_get_task read it

vars == <<tasks, lock, running, pc, req, invoked, response_text, resp, http,
          store_writes, read_at>>

\* ------------------------------------------------------------ requests
NoReq == [via |-> "", json_ok |-> FALSE, jsonrpc |-> "", method |-> "",
          params_ok |-> FALSE, id |-> "", message |-> <<>>, historyLength |-> <<>>]

\* a JSON-RPC request: via is "call" for a request object handed to the task
\* manager and "post" for a body sent to POST /
Request(via, json_ok, jsonrpc, method, params_ok, id, message, hl) ==
    [via |-> via, json_ok |-> json_ok, jsonrpc |-> jsonrpc, method |-> method,
     params_ok |-> params_ok, id |-> id, message |-> message, historyLength |-> hl]

\* SendTaskRequest(params=TaskSendParams(id, message))
SendTaskRequest(via, r, id, role, parts) ==
    Request(via, TRUE, "2.0", "tasks/send", TRUE, id,
            <<Message(role, parts, <<r, "in">>)>>, <<>>)

\* GetTaskRequest(params=TaskQueryParams(id, historyLength))
GetTaskRequest(via, id, hl) ==
    Request(via, TRUE, "2.0", "tasks/get", TRUE, id, <<>>, hl)

\* the discriminated union A2ARequest: Union[SendTaskRequest, GetTaskRequest]
A2AMethods == {"tasks/send", "tasks/get"}

\* validation that checks the discriminator only
validate_python_method_only(body) == body.method \in A2AMethods

\* A2ARequest.validate_python(body) returns a typed request (does not raise)
validate_python(body) ==
    /\ body.jsonrpc = "2.0"
    /\ body.method \in A2AMethods
    /\ body.params_ok

\* -------------------------------------------------------- responses
NoResp == [outcome |-> "none", result |-> <<>>, error |-> <<>>, exc |-> ""]

\* a JSONRPCResponse object handed back by return
Returned(result, error) ==
    [outcome |-> "returned", result |-> result, error |-> error, exc |-> ""]

\* an exception leaving the call
Raised(exc) == [outcome |-> "raised", result |-> <<>>, error |-> <<>>, exc |-> exc]

\* the Task value inside a response: sharesTask when it is the stored object
\* itself, sharesHistory when its history is the stored list object
TaskValue(task, sharesTask, sharesHistory) ==
    [id |-> task.id, status |-> task.status, history |-> task.history,
     sharesTask |-> sharesTask, sharesHistory |-> sharesHistory]

\* InternalError.code
InternalErrorCode == 0 - 32603

\* InternalError(message=...)
InternalError(message) == [code |-> InternalErrorCode, message |-> message]

NoHttp == [status |-> 0, result |-> <<>>, error |-> <<>>]

\* JSONResponse(content, status_code)
JSONResponse(status, result, error) ==
    [status |-> status, result |-> result, error |-> error]

\* an exception leaving handle_request: the framework answers 500 with no
\* JSON-RPC body
ServerError == [status |-> 500, result |-> <<>>, error |-> <<>>]

\* --------------------------------------------- server/task_manager.py
Min(a, b) == IF a < b THEN a ELSE b
Max(a, b) == IF a > b THEN a ELSE b

\* Python's s[start:] for an integer start
SliceFrom(s, start) ==
    LET n == Len(s)
        lo == IF start < 0 THEN Max(n + start, 0) ELSE Min(start, n)
    IN  SubSeq(s, lo + 1, n)

\* a slice that takes the last |h| messages whatever the sign of h
LastN_abs(history, h) == SliceFrom(history, 0 - (IF h < 0 THEN 0 - h ELSE h))

\* task_copy.history[-query.historyLength:]
LastN(history, h) == SliceFrom(history, 0 - h)

\* upsert_task that builds a new Task on every call, replacing a stored one
upsert_task_overwrite(tk, r, params) ==
    (params.id :> Task(params.id, TaskStatus(SUBMITTED, r, "upsert"),
                       <<params.message[1]>>)) @@ tk

\* upsert_task that gives an existing task a new `submitted` status
upsert_task_resubmits(tk, r, params) ==
    IF params.id \notin DOMAIN tk
    THEN tk @@ (params.id :> Task(params.id, TaskStatus(SUBMITTED, r, "upsert"),
                                  <<params.message[1]>>))
    ELSE [tk EXCEPT ![params.id].history = Append(@, params.message[1]),
                    ![params.id].status = TaskStatus(SUBMITTED, r, "upsert")]

\* upsert_task that rebinds self.tasks to a dict holding only the new task
upsert_task_rebind(tk, r, params) ==
    IF params.id \notin DOMAIN tk
    THEN (params.id :> Task(params.id, TaskStatus(SUBMITTED, r, "upsert"),
                            <<params.message[1]>>))
    ELSE [tk EXCEPT ![params.id].history = Append(@, params.message[1])]

\* a section that returns without giving the lock back
lock_kept(r) == r

\* the lock when control leaves an `async with self.lock` block, by falling
\* off its end, by return or by an exception: __aexit__ releases it
lock_on_exit(r) == 0

\* the dict after upsert_task(params) by request r
upsert_task(tk, r, params) ==
    IF params.id \notin DOMAIN tk
    THEN tk @@ (params.id :> Task(params.id, TaskStatus(SUBMITTED, r, "upsert"),
                                  <<params.message[1]>>))
    ELSE [tk EXCEPT ![params.id].history = Append(@, params.message[1])]

\* JSONRPCError: code: int and message: str are required, data is optional
JSONRPCErrorRequired == {"code", "message"}

\* GetTaskResponse(id=request.id, error={"message": "Task not found"}): the
\* dict is validated as a JSONRPCError, and a required field it lacks makes
\* the constructor raise pydantic's ValidationError
NotFoundResponse ==
    LET error == [message |-> "Task not found"]
    IN  IF JSONRPCErrorRequired \subseteq DOMAIN error
        THEN Returned(<<>>, <<error>>)
        ELSE Raised("ValidationError")

\* the history on_get_task puts into task_copy
trimmed_history(history, hl) ==
    IF hl # <<>> THEN LastN(history, hl[1]) ELSE history

\* what on_get_task gives back for `query` on table tk
on_get_task(tk, query) ==
    IF query.id \notin DOMAIN tk
    THEN NotFoundResponse
    ELSE LET task == tk[query.id]
             task_copy == [task EXCEPT !.history =
                              trimmed_history(task.history, query.historyLength)]
         IN  Returned(<<TaskValue(task_copy, FALSE, query.historyLength = <<>>)>>, <<>>)

\* on_get_task without the copy: the slice is bound to the stored task
store_after_get_trimmed(tk, query) ==
    IF query.id \in DOMAIN tk
    THEN [tk EXCEPT ![query.id].history = trimmed_history(@, query.historyLength)]
    ELSE tk

\* on_get_task that hands the stored list over and leaves an empty one
store_after_get_drained(tk, query) ==
    IF query.id \in DOMAIN tk
    THEN [tk EXCEPT ![query.id].history = <<>>]
    ELSE tk

\* the table after on_get_task: task_copy = task.model_copy() is a new Task
\* object and the slice is bound to its history attribute only
store_after_get(tk, query) == tk

\* ----------------------------------------------- agent/task_manager.py
\* _get_user_query: request.params.message.parts[0].text
has_user_query(request) == Len(request.message[1].parts) >= 1
get_user_query(request) == request.message[1].parts[1]

\* a failure handler that marks the task failed
store_after_failed_invoke_marked(tk, r, id) ==
    [tk EXCEPT ![id].status = TaskStatus(FAILED, r, "reply")]

\* the table after agent.invoke or _get_user_query raised: on_send_task has
\* no try block, the exception leaves it at once
store_after_failed_invoke(tk, r, id) == tk

\* task.status = TaskStatus(state="COMPLETED")
completed_state == "COMPLETED"

\* Message(role="agent", parts=[TextPart(text=response_text)])
agent_response(r, text) == Message("agent", <<text>>, <<r, "out">>)

\* the reply put at the head of the history: task.history.insert(0, ...)
append_reply_first(tk, r, id, text) ==
    [tk EXCEPT ![id].status = TaskStatus("COMPLETED", r, "reply"),
               ![id].history = <<Message("agent", <<text>>, <<r, "out">>)>> \o @]

\* task.status = ...; task.history.append(agent_response)
append_reply(tk, r, id, text) ==
    [tk EXCEPT ![id].status = TaskStatus(completed_state, r, "reply"),
               ![id].history = Append(@, agent_response(r, text))]

\* ------------------------------------------------------ server/server.py
\* the methods of logging.Logger that log a message
LoggerMethods == {"debug", "info", "warning", "error", "exception", "critical"}

\* the except clause of handle_request: logger.errorr(...), then the 400
\* response; an attribute Logger lacks raises AttributeError out of the handler
except_clause(e) ==
    IF "errorr" \in LoggerMethods
    THEN JSONResponse(400, <<>>, <<InternalError(e)>>)
    ELSE ServerError

\* Step 3 of handle_request: the task manager method it calls for a typed
\* request, "" when it raises ValueError("Unsupported A2A method") instead
dispatched_to(json_rpc) ==
    IF json_rpc.method = "tasks/send" THEN "tasks/send" ELSE ""

\* create_response(result): model_dump(exclude_none=True), status 200
create_response(result) == JSONResponse(200, result.result, result.error)

\* ---------------------------------------------------------------- Init
Init ==
    /\ tasks = << >>
    /\ lock = 0
    /\ running = 0
    /\ pc = [r \in Reqs |-> "idle"]
    /\ req = [r \in Reqs |-> NoReq]
    /\ invoked = [r \in Reqs |-> <<>>]
    /\ response_text = [r \in Reqs |-> ""]
    /\ resp = [r \in Reqs |-> NoResp]
    /\ http = [r \in Reqs |-> NoHttp]
    /\ store_writes = [t \in {IdOrder[i] : i \in 1..Len(IdOrder)} |-> 0]
    /\ read_at = [r \in Reqs |-> 0]

\* requests take their slots in the order they are made, and a caller runs
\* (and creates a coroutine) only while no handler owns the loop
NextSlot(r) ==
    /\ running = 0
    /\ pc[r] = "idle"
    /\ \A q \in Reqs : q < r => pc[q] # "idle"

Ready == {q \in Reqs : pc[q] = "ready"}

\* the loop resumes ready coroutines in the order they were scheduled
Scheduled(r) == running = 0 /\ pc[r] = "ready" /\ \A q \in Ready : r <= q

\* ids are interchangeable: a request names an id already named by an
\* earlier request, or the first one not yet named
UsedIds == {req[q].id : q \in {q \in Reqs : pc[q] # "idle"}}
CallableIds ==
    {IdOrder[i] : i \in {i \in 1..Len(IdOrder) : i <= Cardinality(UsedIds) + 1}}

\* control enters the task manager method `method` for request r: a direct
\* call's coroutine is resumed by the loop, handle_request calls it inline
Entered(r, method) ==
    /\ req[r].method = method
    /\ \/ req[r].via = "call" /\ Scheduled(r)
       \/ /\ req[r].via = "post" /\ pc[r] = "called" /\ running = r
          /\ dispatched_to(req[r]) = method

\* where control goes when the task manager method returns or raises
AfterReturn(r) == IF req[r].via = "post" THEN "respond" ELSE "done"
AfterRaise(r) == IF req[r].via = "post" THEN "except" ELSE "done"
RunningAfter(r) == IF req[r].via = "post" THEN r ELSE 0

\* a caller creates the coroutine on_send_task(request)
CallSendTask(r) ==
    /\ NextSlot(r)
    /\ \E id \in CallableIds, m \in InMessages :
          req' = [req EXCEPT ![r] = SendTaskRequest("call", r, id, m[1], m[2])]
    /\ pc' = [pc EXCEPT ![r] = "ready"]
    /\ UNCHANGED <<tasks, lock, running, invoked, response_text, resp, http,
                   store_writes, read_at>>

\* a caller creates the coroutine on_get_task(request)
CallGetTask(r) ==
    /\ NextSlot(r)
    /\ \E id \in CallableIds, hl \in HistoryLengths :
          req' = [req EXCEPT ![r] = GetTaskRequest("call", id, hl)]
    /\ pc' = [pc EXCEPT ![r] = "ready"]
    /\ UNCHANGED <<tasks, lock, running, invoked, response_text, resp, http,
                   store_writes, read_at>>

\* on_send_task step 1, upsert_task: async with self.lock (enter)
UpsertAcquire(r) ==
    /\ Entered(r, "tasks/send")
    /\ lock = 0
    /\ running' = r
    /\ lock' = r
    /\ pc' = [pc EXCEPT ![r] = "upsert"]
    /\ UNCHANGED <<tasks, req, invoked, response_text, resp, http, store_writes,
                   read_at>>

\* upsert_task: the locked body, then the lock is released on leaving it
Upsert(r) ==
    /\ pc[r] = "upsert" /\ running = r /\ lock = r
    /\ tasks' = upsert_task(tasks, r, req[r])
    /\ store_writes' = [store_writes EXCEPT ![req[r].id] = @ + 1]
    /\ lock' = lock_on_exit(r)
    /\ pc' = [pc EXCEPT ![r] = "invoke"]
    /\ UNCHANGED <<running, req, invoked, response_text, resp, http, read_at>>

\* on_send_task step 2: self.agent.invoke(self._get_user_query(request), ...)
\* returns a text
InvokeReturns(r) ==
    /\ pc[r] = "invoke" /\ running = r
    /\ has_user_query(req[r])
    /\ invoked' = [invoked EXCEPT ![r] = <<get_user_query(req[r])>>]
    /\ \E text \in ReplyTexts : response_text' = [response_text EXCEPT ![r] = text]
    /\ pc' = [pc EXCEPT ![r] = "reply"]
    /\ UNCHANGED <<tasks, lock, running, req, resp, http, store_writes, read_at>>

\* step 2 raises: parts[0] of an empty list (IndexError), or the agent fails
InvokeRaises(r) ==
    /\ pc[r] = "invoke" /\ running = r
    /\ IF has_user_query(req[r])
       THEN /\ invoked' = [invoked EXCEPT ![r] = <<get_user_query(req[r])>>]
            /\ resp' = [resp EXCEPT ![r] = Raised("AgentError")]
       ELSE /\ invoked' = invoked
            /\ resp' = [resp EXCEPT ![r] = Raised("IndexError")]
    /\ tasks' = store_after_failed_invoke(tasks, r, req[r].id)
    /\ pc' = [pc EXCEPT ![r] = AfterRaise(r)]
    /\ running' = RunningAfter(r)
    /\ UNCHANGED <<lock, req, response_text, http, store_writes, read_at>>

\* step 4: async with self.lock (enter)
ReplyAcquire(r) ==
    /\ pc[r] = "reply" /\ running = r /\ lock = 0
    /\ lock' = r
    /\ pc' = [pc EXCEPT ![r] = "append"]
    /\ UNCHANGED <<tasks, running, req, invoked, response_text, resp, http,
                   store_writes, read_at>>

\* step 4: the locked body, then the lock is released
AppendReply(r) ==
    /\ pc[r] = "append" /\ running = r /\ lock = r
    /\ tasks' = append_reply(tasks, r, req[r].id, response_text[r])
    /\ store_writes' = [store_writes EXCEPT ![req[r].id] = @ + 1]
    /\ lock' = lock_on_exit(r)
    /\ pc' = [pc EXCEPT ![r] = "return"]
    /\ UNCHANGED <<running, req, invoked, response_text, resp, http, read_at>>

\* step 5: return SendTaskResponse(result=task), the stored Task object
SendReturn(r) ==
    /\ pc[r] = "return" /\ running = r
    /\ resp' = [resp EXCEPT ![r] = Returned(<<TaskValue(tasks[req[r].id], TRUE, TRUE)>>, <<>>)]
    /\ pc' = [pc EXCEPT ![r] = AfterReturn(r)]
    /\ running' = RunningAfter(r)
    /\ UNCHANGED <<tasks, lock, req, invoked, response_text, http, store_writes,
                   read_at>>

\* on_get_task: async with self.lock (enter)
GetAcquire(r) ==
    /\ Entered(r, "tasks/get")
    /\ lock = 0
    /\ running' = r
    /\ lock' = r
    /\ pc' = [pc EXCEPT ![r] = "get"]
    /\ UNCHANGED <<tasks, req, invoked, response_text, resp, http, store_writes,
                   read_at>>

\* on_get_task: the locked body; the lock is released on return and on raise
GetTask(r) ==
    /\ pc[r] = "get" /\ running = r /\ lock = r
    /\ resp' = [resp EXCEPT ![r] = on_get_task(tasks, req[r])]
    /\ tasks' = store_after_get(tasks, req[r])
    /\ read_at' = [read_at EXCEPT ![r] = store_writes[req[r].id]]
    /\ lock' = lock_on_exit(r)
    /\ LET out == on_get_task(tasks, req[r])
       IN  /\ pc' = [pc EXCEPT ![r] =
                        IF out.outcome = "raised" THEN AfterRaise(r) ELSE AfterReturn(r)]
           /\ running' = RunningAfter(r)
    /\ UNCHANGED <<req, invoked, response_text, http, store_writes>>

\* the task manager called directly
Next ==
    \E r \in Reqs :
        \/ CallSendTask(r)
        \/ CallGetTask(r)
        \/ UpsertAcquire(r)
        \/ Upsert(r)
        \/ InvokeReturns(r)
        \/ InvokeRaises(r)
        \/ ReplyAcquire(r)
        \/ AppendReply(r)
        \/ SendReturn(r)
        \/ GetAcquire(r)
        \/ GetTask(r)

Spec == Init /\ [][Next]_vars

\* termination is checked for one request fewer than safety
LiveReqs == 1..(NumReq - 1)

\* the loop keeps running a coroutine that can take a step, and a resolver
\* call comes back, with a text or with an exception; callers are free to
\* make no further call
Fairness ==
    \A r \in LiveReqs :
        /\ WF_vars(UpsertAcquire(r))
        /\ WF_vars(Upsert(r))
        /\ WF_vars(InvokeReturns(r) \/ InvokeRaises(r))
        /\ WF_vars(ReplyAcquire(r))
        /\ WF_vars(AppendReply(r))
        /\ WF_vars(SendReturn(r))
        /\ WF_vars(GetAcquire(r))
        /\ WF_vars(GetTask(r))

\* the task manager called directly by the requests of LiveReqs
NextLive ==
    \E r \in LiveReqs :
        \/ CallSendTask(r)
        \/ CallGetTask(r)
        \/ UpsertAcquire(r)
        \/ Upsert(r)
        \/ InvokeReturns(r)
        \/ InvokeRaises(r)
        \/ ReplyAcquire(r)
        \/ AppendReply(r)
        \/ SendReturn(r)
        \/ GetAcquire(r)
        \/ GetTask(r)

\* the task manager called directly, under a fair loop
SpecLive == Init /\ [][NextLive]_vars /\ Fairness

\* ------------------------------------- reads with a negative length
\* historyLength: int | None takes any integer; the negative ones of callers
DropLengths == {<<0 - h>> : h \in 1..(MaxHistoryLength + 1)}

\* a caller creates the coroutine on_get_task(request), historyLength < 0
CallGetTaskNegative(r) ==
    /\ NextSlot(r)
    /\ \E id \in CallableIds, hl \in DropLengths :
          req' = [req EXCEPT ![r] = GetTaskRequest("call", id, hl)]
    /\ pc' = [pc EXCEPT ![r] = "ready"]
    /\ UNCHANGED <<tasks, lock, running, invoked, response_text, resp, http,
                   store_writes, read_at>>

\* the task manager called directly, its reads asking a negative length
NextNegative ==
    \E r \in Reqs :
        \/ CallSendTask(r)
        \/ CallGetTaskNegative(r)
        \/ UpsertAcquire(r)
        \/ Upsert(r)
        \/ InvokeReturns(r)
        \/ InvokeRaises(r)
        \/ ReplyAcquire(r)
        \/ AppendReply(r)
        \/ SendReturn(r)
        \/ GetAcquire(r)
        \/ GetTask(r)

SpecNegative == Init /\ [][NextNegative]_vars

\* ------------------------------------------- POST / (handle_request)
\* bodies dispatch rejects: not JSON, a jsonrpc other than "2.0", a method
\* outside the union, params lacking the required message
BadBodies ==
    {[json_ok |-> FALSE, jsonrpc |-> "2.0", method |-> "tasks/send", params_ok |-> TRUE],
     [json_ok |-> TRUE, jsonrpc |-> "1.0", method |-> "tasks/send", params_ok |-> TRUE],
     [json_ok |-> TRUE, jsonrpc |-> "2.0", method |-> "tasks/cancel", params_ok |-> TRUE],
     [json_ok |-> TRUE, jsonrpc |-> "2.0", method |-> "tasks/send", params_ok |-> FALSE]}

\* the historyLength values of posted tasks/get bodies
PostedHistoryLengths == {<<>>, <<1>>}

\* a client posts a tasks/send body
PostSend(r) ==
    /\ NextSlot(r)
    /\ \E id \in CallableIds, m \in InMessages :
          req' = [req EXCEPT ![r] = SendTaskRequest("post", r, id, m[1], m[2])]
    /\ pc' = [pc EXCEPT ![r] = "ready"]
    /\ UNCHANGED <<tasks, lock, running, invoked, response_text, resp, http,
                   store_writes, read_at>>

\* a client posts a tasks/get body
PostGet(r) ==
    /\ NextSlot(r)
    /\ \E id \in CallableIds, hl \in PostedHistoryLengths :
          req' = [req EXCEPT ![r] = GetTaskRequest("post", id, hl)]
    /\ pc' = [pc EXCEPT ![r] = "ready"]
    /\ UNCHANGED <<tasks, lock, running, invoked, response_text, resp, http,
                   store_writes, read_at>>

\* a client posts a body that dispatch rejects
PostBad(r) ==
    /\ NextSlot(r)
    /\ \E id \in CallableIds, b \in BadBodies :
          req' = [req EXCEPT ![r] =
                     Request("post", b.json_ok, b.jsonrpc, b.method, b.params_ok, id,
                             <<Message("user", <<"q1">>, <<r, "in">>)>>, <<>>)]
    /\ pc' = [pc EXCEPT ![r] = "ready"]
    /\ UNCHANGED <<tasks, lock, running, invoked, response_text, resp, http,
                   store_writes, read_at>>

\* Step 1: body = await request.json()
ReadBody(r) ==
    /\ req[r].via = "post" /\ Scheduled(r)
    /\ running' = r
    /\ IF req[r].json_ok
       THEN /\ pc' = [pc EXCEPT ![r] = "validate"]
            /\ resp' = resp
       ELSE /\ pc' = [pc EXCEPT ![r] = "except"]
            /\ resp' = [resp EXCEPT ![r] = Raised("JSONDecodeError")]
    /\ UNCHANGED <<tasks, lock, req, invoked, response_text, http, store_writes,
                   read_at>>

\* Step 2: json_rpc = A2ARequest.validate_python(body)
Validate(r) ==
    /\ pc[r] = "validate" /\ running = r
    /\ IF validate_python(req[r])
       THEN /\ pc' = [pc EXCEPT ![r] = "dispatch"]
            /\ resp' = resp
       ELSE /\ pc' = [pc EXCEPT ![r] = "except"]
            /\ resp' = [resp EXCEPT ![r] = Raised("ValidationError")]
    /\ UNCHANGED <<tasks, lock, running, req, invoked, response_text, http,
                   store_writes, read_at>>

\* Step 3: call the task manager, or raise ValueError
Dispatch(r) ==
    /\ pc[r] = "dispatch" /\ running = r
    /\ IF dispatched_to(req[r]) # ""
       THEN /\ pc' = [pc EXCEPT ![r] = "called"]
            /\ resp' = resp
       ELSE /\ pc' = [pc EXCEPT ![r] = "except"]
            /\ resp' = [resp EXCEPT ![r] = Raised("ValueError")]
    /\ UNCHANGED <<tasks, lock, running, req, invoked, response_text, http,
                   store_writes, read_at>>

\* Step 4: return self.create_response(result)
CreateResponse(r) ==
    /\ pc[r] = "respond" /\ running = r
    /\ http' = [http EXCEPT ![r] = create_response(resp[r])]
    /\ pc' = [pc EXCEPT ![r] = "done"]
    /\ running' = 0
    /\ UNCHANGED <<tasks, lock, req, invoked, response_text, resp, store_writes,
                   read_at>>

\* except Exception as e: ...
Except(r) ==
    /\ pc[r] = "except" /\ running = r
    /\ http' = [http EXCEPT ![r] = except_clause(resp[r].exc)]
    /\ pc' = [pc EXCEPT ![r] = "done"]
    /\ running' = 0
    /\ UNCHANGED <<tasks, lock, req, invoked, response_text, resp, store_writes,
                   read_at>>

\* the task manager behind the HTTP server
NextServer ==
    \E r \in Reqs :
        \/ PostSend(r)
        \/ PostGet(r)
        \/ PostBad(r)
        \/ ReadBody(r)
        \/ Validate(r)
        \/ Dispatch(r)
        \/ UpsertAcquire(r)
        \/ Upsert(r)
        \/ InvokeReturns(r)
        \/ InvokeRaises(r)
        \/ ReplyAcquire(r)
        \/ AppendReply(r)
        \/ SendReturn(r)
        \/ CreateResponse(r)
        \/ Except(r)

SpecServer == Init /\ [][NextServer]_vars

\* ------------------------------------------------ object references
\* the history a caller finds now in the Task value call r handed it: the
\* stored list itself when the value shares it (model_copy() is shallow and
\* on_send_task returns the stored Task), else the slice made at read time
seen_history(r) ==
    LET v == resp[r].result[1]
    IN  IF v.sharesTask \/ v.sharesHistory THEN tasks[v.id].history ELSE v.history

\* the status a caller finds now in that value: the stored task's status when
\* the value is the stored Task, else the TaskStatus object the copy kept
seen_status(r) ==
    LET v == resp[r].result[1]
    IN  IF v.sharesTask THEN tasks[v.id].status ELSE v.status

\* ====================================================== properties
Called == {r \in Reqs : pc[r] # "idle"}

\* the on_send_task calls made for task id t
Sends(t) == {r \in Called : req[r].method = "tasks/send" /\ req[r].id = t}

\* the on_get_task calls that have returned or raised
GetsDone == {r \in Called : req[r].method = "tasks/get" /\ pc[r] = "done"}

\* how often the message object oid occurs in history H
Count(H, oid) == Cardinality({i \in 1..Len(H) : H[i].oid = oid})

\* the last min(h, |H|) messages of H, for h >= 0
Suffix(H, h) == SubSeq(H, Len(H) - Min(h, Len(H)) + 1, Len(H))

\* C1: a send with a fresh id that no other send touches, the resolver
\* succeeding, returns a task in state `completed` whose history is the
\* incoming message followed by an agent message carrying the resolver's
\* output for the text of the incoming message's first part.
C1_FreshSendCompletes ==
    \A r \in Reqs :
        (/\ pc[r] = "done" /\ req[r].method = "tasks/send"
         /\ resp[r].outcome = "returned"
         /\ Sends(req[r].id) = {r})
        => /\ resp[r].result[1].status.state = COMPLETED
           /\ invoked[r] = <<req[r].message[1].parts[1]>>
           /\ resp[r].result[1].history =
                 <<req[r].message[1], Message("agent", <<response_text[r]>>, <<r, "out">>)>>

\* C2: once every send made for a task id has finished with the resolver
\* succeeding, the stored history holds each send's incoming message exactly
\* once and each send's reply exactly once, and nothing else: M queries and
\* M replies for M sends.
C2_SendsAllCounted ==
    \A t \in UsedIds :
        (/\ Sends(t) # {}
         /\ \A r \in Sends(t) : pc[r] = "done" /\ resp[r].outcome = "returned")
        => /\ t \in DOMAIN tasks
           /\ Len(tasks[t].history) = 2 * Cardinality(Sends(t))
           /\ \A r \in Sends(t) : /\ Count(tasks[t].history, <<r, "in">>) = 1
                                  /\ Count(tasks[t].history, <<r, "out">>) = 1

C2_Witness ==
    \E t \in UsedIds :
        /\ Cardinality(Sends(t)) >= 2
        /\ \A r \in Sends(t) : pc[r] = "done" /\ resp[r].outcome = "returned"
        /\ \E r1, r2 \in Sends(t) : req[r1].message[1].parts # req[r2].message[1].parts

\* the sends that have performed their upsert
Upserted == {r \in Called : req[r].method = "tasks/send"
                            /\ pc[r] \in {"invoke", "reply", "append", "return",
                                          "respond", "except", "done"}}

\* C3: the store holds exactly one task per id that a send has upserted, so
\* N sends with pairwise distinct ids leave N tasks.
C3_NoTaskLost ==
    /\ DOMAIN tasks = {req[r].id : r \in Upserted}
    /\ \A t \in DOMAIN tasks : tasks[t].id = t
    /\ \A S \in SUBSET Upserted :
          (\A r1, r2 \in S : r1 # r2 => req[r1].id # req[r2].id)
          => Cardinality(DOMAIN tasks) >= Cardinality(S)

C3_Witness ==
    /\ \E r1, r2 \in Upserted : req[r1].id # req[r2].id
    /\ Cardinality(DOMAIN tasks) = 2

\* C4: in every stored history each reply sits after the incoming message
\* of the send that produced it.
C4_ReplyAfterQuery ==
    \A t \in DOMAIN tasks :
        LET H == tasks[t].history
        IN  \A j \in 1..Len(H) :
                H[j].oid[2] = "out"
                => \E i \in 1..(j - 1) : H[i].oid = <<H[j].oid[1], "in">>

C4_Witness ==
    \E t \in DOMAIN tasks :
        LET H == tasks[t].history
        IN  /\ Len(H) >= 4
            /\ H[2].oid[2] = "out" /\ H[4].oid[2] = "out"
            /\ H[2].oid[1] # H[4].oid[1]

\* C5: on_get_task on a stored task with history H returns H when
\* historyLength is omitted and the last min(h, |H|) messages of H when
\* historyLength = h >= 0 (nothing for h = 0, all of H for h > |H|).
C5_GetReturnsLastN ==
    [][\A r \in Reqs :
          (pc[r] = "get" /\ pc'[r] # "get" /\ req[r].id \in DOMAIN tasks)
          => LET H == tasks[req[r].id].history
                 hl == req[r].historyLength
             IN  /\ resp'[r].outcome = "returned"
                 /\ Len(resp'[r].result) = 1
                 /\ hl = <<>> => resp'[r].result[1].history = H
                 /\ (hl # <<>> /\ hl[1] >= 0)
                       => resp'[r].result[1].history = Suffix(H, hl[1])]_vars

\* C6: no step of an on_get_task call changes the task table, whatever the
\* id and historyLength and whether the task is found.
C6_GetLeavesStore ==
    [][\A r \in Reqs :
          (req[r].method = "tasks/get" /\ pc[r] # "idle" /\ pc'[r] # pc[r])
          => tasks' = tasks]_vars

C6_Witness ==
    \E r \in GetsDone :
        /\ resp[r].outcome = "returned"
        /\ req[r].historyLength # <<>>
        /\ read_at[r] = store_writes[req[r].id]
        /\ Len(resp[r].result[1].history) < Len(tasks[req[r].id].history)

\* C7: two on_get_task calls for the same id with the same historyLength,
\* with no upsert or reply append for that id between them, give back the
\* same outcome and the same history contents.
C7_IdempotentRead ==
    \A r1, r2 \in GetsDone :
        (/\ req[r1].id = req[r2].id
         /\ req[r1].historyLength = req[r2].historyLength
         /\ read_at[r1] = read_at[r2])
        => /\ resp[r1].outcome = resp[r2].outcome
           /\ Len(resp[r1].result) = Len(resp[r2].result)
           /\ resp[r1].outcome = "returned"
                 => resp[r1].result[1].history = resp[r2].result[1].history

C7_Witness ==
    \E r1, r2 \in GetsDone :
        /\ r1 # r2
        /\ req[r1].id = req[r2].id
        /\ req[r1].historyLength = req[r2].historyLength
        /\ req[r1].historyLength # <<>>
        /\ read_at[r1] = read_at[r2]
        /\ resp[r1].outcome = "returned" /\ resp[r2].outcome = "returned"
        /\ resp[r1].result[1].history # <<>>

\* C8: on_get_task for an id never sent returns a response with a
\* task-not-found error and no result, does not raise, and leaves the table
\* unchanged.
C8_NotFoundIsReturned ==
    [][\A r \in Reqs :
          (pc[r] = "get" /\ pc'[r] # "get" /\ store_writes[req[r].id] = 0)
          => /\ resp'[r].outcome = "returned"
             /\ resp'[r].error # <<>>
             /\ resp'[r].result = <<>>
             /\ tasks' = tasks]_vars

\* the POST / requests whose handling failed
Failed == {r \in Called : req[r].via = "post" /\ pc[r] = "done"
                          /\ resp[r].outcome = "raised"}

\* C9: every POST / whose handling fails is answered with status 400 and a
\* JSON-RPC body whose error has code -32603 and the failure text as message.
C9_FailureAnswered400 ==
    \A r \in Failed : http[r] = JSONResponse(400, <<>>, <<InternalError(resp[r].exc)>>)

\* C10: a well-formed request is handed to the task manager operation its
\* method selects, and a well-formed tasks/get for a stored task is answered
\* with a success response whose result is that task.
C10_DispatchByMethod ==
    [][\A r \in Reqs :
          /\ (pc[r] = "dispatch" /\ pc'[r] # "dispatch")
                => (pc'[r] = "called" /\ dispatched_to(req[r]) = req[r].method)
          /\ (/\ pc[r] # "done" /\ pc'[r] = "done"
              /\ req[r].json_ok /\ validate_python(req[r])
              /\ req[r].method = "tasks/get"
              /\ req[r].id \in DOMAIN tasks)
                => /\ http'[r].status = 200
                   /\ Len(http'[r].result) = 1
                   /\ http'[r].result[1].id = req[r].id]_vars

\* the posted bodies that dispatch must reject: not JSON, jsonrpc not "2.0",
\* method absent or not tasks/send or tasks/get, params not of the schema
Rejected(r) ==
    /\ req[r].via = "post"
    /\ \/ ~req[r].json_ok
       \/ req[r].jsonrpc # "2.0"
       \/ req[r].method \notin {"tasks/send", "tasks/get"}
       \/ ~req[r].params_ok

\* C11: a request that dispatch rejects never reaches the task manager: no
\* step of its handling changes the task table or invokes the resolver, and
\* it never enters on_send_task or on_get_task.
C11_RejectedHasNoEffect ==
    [][\A r \in Reqs :
          (Rejected(r) /\ pc[r] # "idle" /\ pc'[r] # pc[r])
          => /\ tasks' = tasks
             /\ invoked' = invoked
             /\ pc'[r] \in {"validate", "except", "done"}]_vars

C11_Witness ==
    \E r \in Reqs :
        /\ Rejected(r) /\ pc[r] = "done"
        /\ req[r].json_ok /\ req[r].method = "tasks/send"
        /\ req[r].id \in DOMAIN tasks
        /\ resp[r] = Raised("ValidationError")
        /\ Count(tasks[req[r].id].history, <<r, "in">>) = 0

\* the on_send_task calls whose resolver call was made and gave no text back
ResolveFailed == {r \in Called : invoked[r] # <<>> /\ response_text[r] = ""}

\* C12: when the resolver call of an on_send_task fails, the failing step
\* leaves the whole table as it was; afterwards the call's incoming message
\* is in the stored history once, no reply of that call is, the status was
\* not set by that call, and the call ended with an error, not a response.
C12_FailedResolveKeepsQuery ==
    /\ [](\A r \in ResolveFailed :
             LET task == tasks[req[r].id]
             IN  /\ Count(task.history, <<r, "in">>) = 1
                 /\ Count(task.history, <<r, "out">>) = 0
                 /\ task.status.timestamp # <<r, "reply">>
                 /\ resp[r].outcome = "raised"
                 /\ pc[r] \in {"done", "except"})
    /\ [][\A r \in Reqs :
             (pc[r] = "invoke" /\ pc'[r] \notin {"invoke", "reply"})
             => tasks' = tasks]_vars

C12_Witness ==
    \E r \in ResolveFailed :
        /\ pc[r] = "done"
        /\ Cardinality(DOMAIN tasks) = 2
        /\ Len(tasks[req[r].id].history) >= 3

\* C13: a request that is in its resolver call does not hold the store lock;
\* the lock is held only inside upsert_task, inside the reply-append
\* section of on_send_task and inside on_get_task.
C13_NoLockAcrossResolve ==
    /\ \A r \in Reqs : pc[r] = "invoke" => lock # r
    /\ lock # 0 => pc[lock] \in {"upsert", "append", "get"}

C13_Witness ==
    \E r \in Reqs :
        /\ pc[r] = "invoke" /\ lock = 0
        /\ Count(tasks[req[r].id].history, <<r, "in">>) = 1
        /\ \E q \in Reqs : q # r /\ pc[q] = "ready"

\* the POST / requests that have been answered
Answered == {r \in Called : req[r].via = "post" /\ pc[r] = "done"}

\* C14: every response (tasks/send success, tasks/get success, task not
\* found, internal error) carries exactly one of result and error.
C14_ExactlyOneOfResultError ==
    \A r \in Answered : (http[r].result # <<>>) # (http[r].error # <<>>)

\* C15: a stored task's state is always `submitted` or `completed`, and a
\* status is only ever replaced by a `completed` one.
C15_StatusLifecycle ==
    /\ [](\A t \in DOMAIN tasks : tasks[t].status.state \in {SUBMITTED, COMPLETED})
    /\ [][\A t \in DOMAIN tasks :
             tasks'[t].status # tasks[t].status
             => tasks'[t].status.state = COMPLETED]_vars

IsPrefix(a, b) == Len(a) <= Len(b) /\ SubSeq(b, 1, Len(a)) = a

\* C16: a stored id stays stored, and a task's history before a step is a
\* prefix of its history after it.
C16_StoreOnlyGrows ==
    [][\A t \in DOMAIN tasks :
          /\ t \in DOMAIN tasks'
          /\ IsPrefix(tasks[t].history, tasks'[t].history)]_vars

C16_Witness ==
    /\ Cardinality(DOMAIN tasks) = 2
    /\ \E t \in DOMAIN tasks : Len(tasks[t].history) = 4

\* C17: upsert_task creates a missing task with status `submitted` and the
\* message as its whole history, appends the message to an existing task's
\* history leaving its status as it was, and changes no other task.
C17_UpsertFrame ==
    [][\A r \in Reqs :
          (pc[r] = "upsert" /\ pc'[r] # "upsert")
          => LET id == req[r].id
                 m == req[r].message[1]
             IN  /\ DOMAIN tasks' = DOMAIN tasks \cup {id}
                 /\ \A t \in DOMAIN tasks \ {id} : tasks'[t] = tasks[t]
                 /\ tasks'[id].id = id
                 /\ IF id \in DOMAIN tasks
                    THEN /\ tasks'[id].history = Append(tasks[id].history, m)
                         /\ tasks'[id].status = tasks[id].status
                    ELSE /\ tasks'[id].history = <<m>>
                         /\ tasks'[id].status.state = SUBMITTED]_vars

C17_Witness ==
    \E r \in Reqs :
        /\ pc[r] = "invoke"
        /\ Len(tasks[req[r].id].history) = 3
        /\ tasks[req[r].id].status.timestamp[2] = "reply"
        /\ Cardinality(DOMAIN tasks) = 2

\* C18: while the resolver call of one on_send_task is in flight, the store
\* access of another request that is waiting for the loop can take place
\* (so that two sends on one id can both append their incoming messages
\* before either appends its reply).
C18_StoreAccessDuringResolve ==
    \A a, b \in Reqs :
        (/\ a # b
         /\ pc[a] = "invoke"
         /\ pc[b] = "ready" /\ \A q \in Ready : b <= q)
        => ENABLED (UpsertAcquire(b) \/ GetAcquire(b))

\* every reply directly follows the incoming message of its own call
RepliesAdjacent ==
    \A t \in DOMAIN tasks :
        LET H == tasks[t].history
        IN  \A j \in 1..Len(H) :
                H[j].oid[2] = "out" => (j > 1 /\ H[j - 1].oid = <<H[j].oid[1], "in">>)

\* C19: a tasks/send whose message has no parts is rejected as a validation
\* error before any side effect: its handling never changes the task table,
\* never invokes the resolver and never enters the task manager.
C19_EmptyPartsRejected ==
    [][\A r \in Reqs :
          (/\ req[r].via = "post" /\ req[r].json_ok
           /\ req[r].method = "tasks/send"
           /\ req[r].message[1].parts = <<>>
           /\ pc[r] # "idle" /\ pc'[r] # pc[r])
          => /\ tasks' = tasks
             /\ invoked' = invoked
             /\ pc'[r] \in {"validate", "except", "done"}
             /\ pc'[r] = "except" => resp'[r] = Raised("ValidationError")]_vars

\* the calls that handed a Task value to their caller
HandedTask == {r \in Called : /\ pc[r] = "done" /\ resp[r].outcome = "returned"
                              /\ resp[r].result # <<>>}

\* C20: a Task value handed back by on_get_task or on_send_task is detached
\* from the store: whatever the store does later, the caller finds in it the
\* history and the status it had when it was returned.
C20_ReturnedTaskDetached ==
    \A r \in HandedTask :
        /\ seen_history(r) = resp[r].result[1].history
        /\ seen_status(r) = resp[r].result[1].status

\* the same for the values on_get_task trimmed with a historyLength
TrimmedValueDetached ==
    \A r \in HandedTask :
        (req[r].method = "tasks/get" /\ req[r].historyLength # <<>>)
        => /\ seen_history(r) = resp[r].result[1].history
           /\ seen_status(r) = resp[r].result[1].status

\* the positions inside an `async with self.lock` block
LockedSections == {"upsert", "append", "get"}

\* C21: every step that takes a request out of a locked section (the return
\* of upsert_task, the end of the reply-append section, the return of
\* on_get_task and the exception of its not-found path) leaves the lock free,
\* and under a fair loop every started on_send_task and on_get_task finishes.
C21_LockReleasedAndAllFinish ==
    /\ [][\A r \in Reqs :
             (pc[r] \in LockedSections /\ pc'[r] \notin LockedSections)
             => lock' = 0]_vars
    /\ \A r \in Reqs : (pc[r] # "idle") ~> (pc[r] = "done")

C21_Witness ==
    \E a, b \in Reqs :
        /\ a # b /\ lock = 0
        /\ pc[a] = "done" /\ req[a].method = "tasks/get"
        /\ resp[a] = Raised("ValidationError")
        /\ pc[b] = "done" /\ req[b].method = "tasks/send"
        /\ resp[b].outcome = "returned"

\* the task's history holds a reply appended by on_send_task
HasReply(t) ==
    \E j \in 1..Len(tasks[t].history) : tasks[t].history[j].oid[2] = "out"

\* C22: whenever the store lock is free, a stored task's status is the
\* `submitted` one it was created with exactly when its history holds no
\* reply; and a status is replaced only by the reply-append section of an
\* on_send_task for that task, in the step that appends the reply.
C22_SubmittedIffNoReply ==
    /\ [](lock = 0 =>
            \A t \in DOMAIN tasks :
                (/\ tasks[t].status.state = SUBMITTED
                 /\ tasks[t].status.timestamp[2] = "upsert") <=> ~HasReply(t))
    /\ [][\A t \in DOMAIN tasks :
             tasks'[t].status # tasks[t].status
             => \E r \in Reqs :
                   /\ pc[r] = "append" /\ pc'[r] = "return" /\ req[r].id = t
                   /\ tasks'[t].history = Append(tasks[t].history,
                                                 agent_response(r, response_text[r]))]_vars

C22_Witness ==
    /\ lock = 0
    /\ \E t \in DOMAIN tasks :
          /\ tasks[t].status.state # SUBMITTED
          /\ \E j \in 1..(Len(tasks[t].history) - 1) :
                /\ tasks[t].history[j].oid[2] = "out"
                /\ tasks[t].history[j + 1].oid[2] = "in"
    /\ \E t \in DOMAIN tasks, r \in Reqs :
          /\ tasks[t].status.state = SUBMITTED /\ ~HasReply(t)
          /\ req[r].id = t /\ pc[r] = "done" /\ resp[r].outcome = "raised"

\* C23: on_get_task on a stored task with history H and a negative
\* historyLength h returns, without failing, H less its first min(|h|, |H|)
\* messages, in order, and leaves the stored history as it was.
C23_NegativeLengthDropsPrefix ==
    [][\A r \in Reqs :
          (/\ pc[r] = "get" /\ pc'[r] # "get" /\ req[r].id \in DOMAIN tasks
           /\ req[r].historyLength # <<>> /\ req[r].historyLength[1] < 0)
          => LET H == tasks[req[r].id].history
                 dropped == Min(0 - req[r].historyLength[1], Len(H))
             IN  /\ resp'[r].outcome = "returned"
                 /\ Len(resp'[r].result) = 1
                 /\ resp'[r].result[1].history = SubSeq(H, dropped + 1, Len(H))
                 /\ tasks'[req[r].id].history = H]_vars

C23_Witness ==
    \E a, b \in GetsDone :
        /\ req[a].id = req[b].id /\ req[a].id \in DOMAIN tasks
        /\ read_at[a] = store_writes[req[a].id]
        /\ read_at[b] = store_writes[req[b].id]
        /\ resp[a].outcome = "returned" /\ resp[b].outcome = "returned"
        /\ 0 - req[a].historyLength[1] > Len(tasks[req[a].id].history)
        /\ resp[a].result[1].history = <<>>
        /\ 0 - req[b].historyLength[1] < Len(tasks[req[b].id].history)
        /\ resp[b].result[1].history =
              SubSeq(tasks[req[b].id].history, 2, Len(tasks[req[b].id].history))

====
